---- MODULE Spec2Model ----
(***************************************************************************)
(* mcp-communicator-telegram (src/index.ts): the question/answer           *)
(* correlation engine (pendingQuestions, lastQuestionId, handleMessage,    *)
(* askUser) and the line-delimited JSON-RPC dispatcher (McpServer).        *)
(*                                                                         *)
(* Texts are sequences of characters; a character is a one-element string. *)
(* "NL" is the newline character.  A JavaScript undefined / null is the    *)
(* one-character text Undefined / Null, whose character no text contains.  *)
(***************************************************************************)
EXTENDS Integers, Sequences, FiniteSets, TLC

\* ------------------------------------------------------------------ bounds

\* Number of request frames the client writes on stdin.
MaxReq == 2
\* Number of JSON frames that are not objects (and not null) on stdin.
MaxStray == 1
\* Number of characters of the stdin text whose framing is followed.
MaxText == 6
\* Length of the question texts whose tagged text is parsed back.
MaxQuestionLen == 3

\* ------------------------------------------------------------- JS values

Undefined == <<"undefined">>
Null == <<"null">>

\* JavaScript truthiness of a string-or-null-or-undefined value.
Truthy(v) == v # Undefined /\ v # Null /\ v # <<>>

\* The characters [a-z0-9] of the model's alphabet.
IdChars == {"a", "b"}

\* String.prototype.substring(start) for 0 <= start: the text from index
\* start (0-based) to the end, empty when start is past the end.
Substring(s, start) == SubSeq(s, start + 1, Len(s))

\* The strings Math.random().toString(36) can return: "0" for 0, else "0."
\* followed by a variable number of base-36 digits (five or fewer, or more).
\* substring(7) drops the first five digits whatever they are, so they are
\* fixed to "a" here.
RandomStrings ==
    {<<"0">>, <<"0", ".", "a", "a", "a", "a", "a">>}
    \cup {<<"0", ".", "a", "a", "a", "a", "a">> \o t : t \in {<<"a">>, <<"b">>}}

\* askUser: const questionId = Math.random().toString(36).substring(7)
QuestionIdOf(rnd) == Substring(rnd, 7)

\* askUser: `#${questionId}\n${question}`
TaggedText(questionId, question) == <<"#">> \o questionId \o <<"NL">> \o question

\* text.match(/#([a-z0-9]+)\n/): the leftmost "#", one or more [a-z0-9],
\* newline; the result is the captured group, or Null when nothing matches.
MatchEnd(s, i) ==
    {j \in (i + 2)..Len(s) : s[j] = "NL" /\ \A k \in (i + 1)..(j - 1) : s[k] \in IdChars}
MatchStarts(s) == {i \in 1..Len(s) : s[i] = "#" /\ MatchEnd(s, i) # {}}
MatchQuestionId(s) ==
    IF MatchStarts(s) = {} THEN Null
    ELSE LET i == CHOOSE m \in MatchStarts(s) : \A n \in MatchStarts(s) : m <= n
             j == CHOOSE e \in MatchEnd(s, i) : TRUE
         IN  SubSeq(s, i + 1, j - 1)

\* ----------------------------------------------------------------- config

\* process.env.CHAT_ID, and the numeric chat ids of inbound messages.
validatedChatId == <<"7">>
ConfiguredChat == 7
ChatIds == {ConfiguredChat, 8}
\* msg.chat.id.toString()
ChatIdToString(n) == IF n = ConfiguredChat THEN <<"7">> ELSE <<"8">>

\* ------------------------------------------------------- inputs (bounded)

\* Question texts.
Questions == {<<"a", "?">>}
\* Texts of inbound chat messages (msg.text); Undefined for a message that
\* carries no text (a photo, a sticker).
MessageTexts == {Undefined, <<"x">>, <<"y">>}
\* Failure messages of the transport and of the archiver.
FailureMessages == {<<"ETELEGRAM">>}

\* The requests a client sends (without their id): method, params.name and
\* params.arguments (the question, message, file path or directory).
RequestBodies ==
    {[method |-> m, name |-> Undefined, arguments |-> Undefined] :
        m \in {<<"initialize">>, <<"tools/list">>, <<"resources/list">>}}
    \cup {[method |-> <<"tools/call">>, name |-> <<"ask_user">>, arguments |-> q] :
        q \in Questions \cup {Undefined}}
    \cup {[method |-> <<"tools/call">>, name |-> n, arguments |-> <<"m">>] :
        n \in {<<"notify_user">>, <<"send_file">>, <<"zip_project">>, <<"bogus_tool">>}}

\* What stdin carries: the JSON text of a request object, the JSON texts
\* `null` and `5` (values that are not objects), text that is not JSON, and
\* newlines.
NewLine == [t |-> "nl", v |-> Undefined]
Junk == [t |-> "junk", v |-> Undefined]
JsonText(request) == [t |-> "json", v |-> request]
JsonNull == [t |-> "null", v |-> Undefined]
JsonNumber == [t |-> "number", v |-> Undefined]

\* ------------------------------------------------------------------ state

VARIABLES
    buffer,            \* McpServer.buffer: unterminated tail of stdin
    nextId,            \* the client's next request id
    calls,             \* id -> the handleRequest invocation of that request
    pendingQuestions,  \* questionId -> id of the call whose promise `resolve` is stored
    lastQuestionId,    \* Null or a questionId
    event,             \* history: what handleMessage did, if the last step was one
    crashed,           \* the process was terminated by an unhandled rejection
    unaddressed,       \* number of responses written that carry no request id
    stdin              \* history: the text read from stdin, the lengths of its
                       \* chunks, the lines handed to JSON.parse

vars == <<buffer, nextId, calls, pendingQuestions, lastQuestionId, event,
          crashed, unaddressed, stdin>>

\* What a handleMessage run did (history): the outcome; whether the message
\* came from another chat and whether it had text; and, when it was not
\* rejected, the quoted text read, the questionId looked up and the call whose
\* `resolve` was invoked (0 for none).
NoEvent ==
    [outcome |-> "none", foreign |-> FALSE, hasText |-> FALSE, reply |-> Undefined,
     questionId |-> Null, call |-> 0]

\* ------------------------------------------------------------- responses

\* sendResponse({jsonrpc, id, result: ...})
ResultResponse(id, text) == [id |-> id, error |-> FALSE, code |-> 0, text |-> text]
\* sendResponse({jsonrpc, id, error: {code, message}})
ErrorResponse(id, code, message) == [id |-> id, error |-> TRUE, code |-> code, text |-> message]

\* result.content[0].text / static results
TextContent(text) == <<"content">> \o text

\* Mutant of ToolError: the catch responds and rethrows, and the catch of
\* handleInput responds again.
ToolErrorTwice(request, message) ==
    <<[id |-> request.id, error |-> TRUE, code |-> -32000, text |-> message],
      [id |-> request.id, error |-> TRUE, code |-> -32000, text |-> message]>>

\* The catch of the tools/call case: one error response, code -32000.
ToolError(request, message) == <<ErrorResponse(request.id, -32000, message)>>

\* Mutant of MethodNotFound: the unknown method is reported as a tool failure.
MethodNotFoundAsToolError(request) ==
    <<[id |-> request.id, error |-> TRUE, code |-> -32000,
       text |-> <<"Method not found: ">> \o request.method]>>

\* The default case of handleRequest's switch.
MethodNotFound(request) ==
    <<ErrorResponse(request.id, -32601, <<"Method not found: ">> \o request.method)>>

\* A handleRequest invocation: request, where its async body stands (pc),
\* askUser's questionId, what it sent to the chat, the answer its promise was
\* resolved with, and its responses; as history, how often its `resolve` was
\* called and the rank of its pendingQuestions.set among all (0 before it).
Call(request, pc, questionId, sent, out) ==
    [request |-> request, pc |-> pc, questionId |-> questionId, sent |-> sent,
     answer |-> Undefined, invoked |-> 0, registeredAt |-> 0, out |-> out]

\* bot.sendMessage(chat, text, {reply_markup: {force_reply}}) as issued.
SendMessage(text, forceReply) == <<[text |-> text, force_reply |-> forceReply]>>

\* handleRequest up to its first await, from state s (see HandleLines); rnd is
\* what Math.random().toString(36) returns if askUser is reached.
HandleRequest(s, request, rnd) ==
    LET done(out) == Call(request, "done", Undefined, <<>>, out)
        put(c, last) == [s EXCEPT !.calls = (request.id :> c) @@ s.calls, !.last = last]
    IN
    IF request.method = <<"initialize">> THEN
        put(done(<<ResultResponse(request.id, <<"serverInfo">>)>>), s.last)
    ELSE IF request.method = <<"tools/list">> THEN
        put(done(<<ResultResponse(request.id, <<"tools">>)>>), s.last)
    ELSE IF request.method = <<"tools/call">> THEN
        IF request.name = <<"ask_user">> THEN
            IF request.arguments = Undefined
            THEN put(done(ToolError(request, <<"TypeError">>)), s.last)
            ELSE LET questionId == QuestionIdOf(rnd)
                 IN  put(Call(request, "sending", questionId,
                              SendMessage(TaggedText(questionId, request.arguments), TRUE),
                              <<>>),
                         questionId)
        ELSE IF request.name = <<"notify_user">> THEN
            put(Call(request, "sending", Undefined,
                     SendMessage(request.arguments, FALSE), <<>>), s.last)
        ELSE IF request.name = <<"send_file">> THEN
            put(Call(request, "sending", Undefined, <<>>, <<>>), s.last)
        ELSE IF request.name = <<"zip_project">> THEN
            put(Call(request, "zipping", Undefined, <<>>, <<>>), s.last)
        ELSE
            put(done(ToolError(request, <<"Unknown tool: ">> \o request.name)), s.last)
    ELSE
        put(done(MethodNotFound(request)), s.last)

\* ------------------------------------------------------------- handleInput

\* Mutant of HeldBack: requests are served one at a time, a request waiting
\* until every earlier one has responded.
HeldBackByEarlier(id) == \E c \in DOMAIN calls : c < id /\ calls[c].pc # "done"

\* Whether request id has to wait for another call before it is started or
\* continued.  handleInput does not await handleRequest: it starts it and
\* moves on to the next line and the next chunk, so no call holds back another.
HeldBack(id) == FALSE

\* String.prototype.split('\n') on a text of stdin symbols.
RECURSIVE Split(_)
Split(s) ==
    IF \A i \in 1..Len(s) : s[i] # NewLine THEN <<s>>
    ELSE LET i == CHOOSE m \in 1..Len(s) :
                      s[m] = NewLine /\ \A n \in 1..(m - 1) : s[n] # NewLine
         IN  <<SubSeq(s, 1, i - 1)>> \o Split(SubSeq(s, i + 1, Len(s)))

\* JSON.parse(message) returns a value exactly when the line is one JSON
\* text; otherwise (an empty line, other text) it throws and the line is
\* dropped.
Parses(line) == Len(line) = 1 /\ line[1].t \in {"json", "null", "number"}
JsonParse(line) == line[1].v

\* handleRequest(null): reading request.method throws inside the async
\* function, the promise rejects, and the catch callback of handleInput
\* throws in turn when it reads request.id: an unhandled rejection.
NullRequest(s) == [s EXCEPT !.unhandled = TRUE]

\* handleRequest(5): request.method is undefined, the default case writes a
\* -32601 response whose id is undefined.
PrimitiveRequest(s) == [s EXCEPT !.unaddressed = @ + 1]

\* The for loop of handleInput over the complete lines, from
\* s = [calls, last, unhandled, unaddressed].  rnd[id] is what
\* Math.random().toString(36) returns to request id.
RECURSIVE HandleLines(_, _, _)
HandleLines(s, messages, rnd) ==
    IF messages = <<>> THEN s
    ELSE LET line  == Head(messages)
             after == IF ~Parses(line) THEN s
                      ELSE IF line[1].t = "null" THEN NullRequest(s)
                      ELSE IF line[1].t = "number" THEN PrimitiveRequest(s)
                      ELSE LET request == JsonParse(line)
                           IN  HandleRequest(s, request, rnd[request.id])
         IN  HandleLines(after, Tail(messages), rnd)

\* The chunks stdin delivers when the client's next request id is k: a whole
\* line, an unterminated request, a bare newline, a line that is not JSON,
\* and a newline (ending what the buffer holds) followed by a whole line.
Request(k, body) == [id |-> k] @@ body
Chunks(k, bodies) ==
    {<<NewLine>>, <<Junk, NewLine>>}
    \cup {<<JsonText(Request(k, b))>> : b \in bodies}
    \cup {<<JsonText(Request(k, b)), NewLine>> : b \in bodies}
    \cup {<<NewLine, JsonText(Request(k, b)), NewLine>> : b \in bodies}

Requests(chunk) == {i \in 1..Len(chunk) : chunk[i].t = "json"}

\* The requests of buffer and chunk that reach Math.random in askUser.
Asks(text) ==
    {text[i].v.id : i \in {j \in Requests(text) :
        text[j].v.name = <<"ask_user">> /\ text[j].v.arguments # Undefined}}
RandomDraws(text) ==
    {[id \in 1..MaxReq |-> IF id \in Asks(text) THEN f[id] ELSE <<"0">>] :
        f \in [Asks(text) -> RandomStrings]}

\* Mutant of Pop: the unterminated tail is thrown away.
PopDropped(messages) == <<>>

\* messages.pop() || ''
Pop(messages) == messages[Len(messages)]

\* The lines of buffer + chunk that handleInput hands to JSON.parse.
Complete(chunk) ==
    LET messages == Split(buffer \o chunk) IN SubSeq(messages, 1, Len(messages) - 1)

\* process.stdin.on('data', handleInput).  An unhandled rejection terminates
\* the process or only prints a warning, depending on the Node.js version
\* and its --unhandled-rejections mode.  (stdin, the history of what was
\* read, is set by the specification.)
HandleInput(chunk, rnd) ==
    LET messages == Split(buffer \o chunk)
        after    == HandleLines([calls |-> calls, last |-> lastQuestionId,
                                 unhandled |-> FALSE, unaddressed |-> unaddressed],
                                Complete(chunk), rnd)
    IN  /\ ~crashed
        /\ nextId + Cardinality(Requests(chunk)) - 1 <= MaxReq
        /\ after.unaddressed <= MaxStray
        /\ ~HeldBack(nextId)
        /\ buffer' = Pop(messages)
        /\ nextId' = nextId + Cardinality(Requests(chunk))
        /\ calls' = after.calls
        /\ lastQuestionId' = after.last
        /\ crashed' \in (IF after.unhandled THEN BOOLEAN ELSE {FALSE})
        /\ unaddressed' = after.unaddressed
        /\ UNCHANGED pendingQuestions
        /\ event' = NoEvent

\* ------------------------------------------------- settled sends and zips

Finish(id, out) == [calls EXCEPT ![id].pc = "done", ![id].out = @ \o out]

\* askUser after `await bot.sendMessage(...)` resolved: the promise executor
\* runs pendingQuestions.set(questionId, resolve) and the call suspends.
Register(pq, questionId, id) == (questionId :> id) @@ pq

\* History: the rank of the next pendingQuestions.set.
NextRank == 1 + Cardinality({c \in DOMAIN calls : calls[c].registeredAt > 0})

\* A send (bot.sendMessage / bot.sendDocument) of call id resolved.
SendResolved(id) ==
    /\ ~crashed
    /\ id \in DOMAIN calls
    /\ calls[id].pc = "sending"
    /\ ~HeldBack(id)
    /\ LET name == calls[id].request.name
       IN  IF name = <<"ask_user">> THEN
               /\ pendingQuestions' = Register(pendingQuestions, calls[id].questionId, id)
               /\ calls' = [calls EXCEPT ![id].pc = "waiting",
                                          ![id].registeredAt = NextRank]
           ELSE
               /\ calls' = Finish(id, <<ResultResponse(id, TextContent(
                      IF name = <<"notify_user">> THEN <<"Notification sent successfully">>
                      ELSE IF name = <<"send_file">> THEN <<"File sent successfully">>
                      ELSE <<"Project zipped and sent successfully">>))>>)
               /\ UNCHANGED pendingQuestions
    /\ UNCHANGED <<buffer, nextId, lastQuestionId, crashed, unaddressed, stdin>>
    /\ event' = NoEvent

\* The message of the Error the tool function throws when its send rejects.
SendFailure(name, message) ==
    IF name = <<"ask_user">> THEN <<"Failed to get response: ">> \o message
    ELSE IF name = <<"notify_user">> THEN <<"Failed to send notification: ">> \o message
    ELSE <<"Failed to send file: ">> \o message

\* Mutant of SendRejected: askUser registers its question before it awaits
\* the send, so a failed send leaves the entry behind.
SendRejectedRegistered(id, message) ==
    /\ ~crashed
    /\ id \in DOMAIN calls
    /\ calls[id].pc = "sending"
    /\ calls' = [calls EXCEPT ![id].pc = "done",
                              ![id].out = <<[id |-> id, error |-> TRUE, code |-> -32000,
                                             text |-> SendFailure(calls[id].request.name, message)]>>]
    /\ pendingQuestions' =
          IF calls[id].request.name = <<"ask_user">>
          THEN Register(pendingQuestions, calls[id].questionId, id)
          ELSE pendingQuestions
    /\ UNCHANGED <<buffer, nextId, lastQuestionId, crashed, unaddressed, stdin>>
    /\ event' = NoEvent

\* A send of call id rejected with `message`.
SendRejected(id, message) ==
    /\ ~crashed
    /\ id \in DOMAIN calls
    /\ calls[id].pc = "sending"
    /\ ~HeldBack(id)
    /\ calls' = Finish(id, ToolError(calls[id].request,
                                     SendFailure(calls[id].request.name, message)))
    /\ UNCHANGED <<buffer, nextId, pendingQuestions, lastQuestionId, crashed, unaddressed, stdin>>
    /\ event' = NoEvent

\* zipProject of call id resolved: sendFile follows.
ZipResolved(id) ==
    /\ ~crashed
    /\ id \in DOMAIN calls
    /\ calls[id].pc = "zipping"
    /\ ~HeldBack(id)
    /\ calls' = [calls EXCEPT ![id].pc = "sending"]
    /\ UNCHANGED <<buffer, nextId, pendingQuestions, lastQuestionId, crashed, unaddressed, stdin>>
    /\ event' = NoEvent

\* zipProject of call id rejected (archiver error, oversized archive).
ZipRejected(id, message) ==
    /\ ~crashed
    /\ id \in DOMAIN calls
    /\ calls[id].pc = "zipping"
    /\ ~HeldBack(id)
    /\ calls' = Finish(id, ToolError(calls[id].request, message))
    /\ UNCHANGED <<buffer, nextId, pendingQuestions, lastQuestionId, crashed, unaddressed, stdin>>
    /\ event' = NoEvent

\* ----------------------------------------------------------- handleMessage

\* Quoted texts (msg.reply_to_message?.text): none, a tagged question of any
\* identity, a text with no tag.
Identities == {QuestionIdOf(rnd) : rnd \in RandomStrings}
QuotedTexts ==
    {Undefined, <<"a", "?">>} \cup {TaggedText(i, q) : i \in Identities, q \in Questions}
Messages == [chat : ChatIds, text : MessageTexts, reply : QuotedTexts]

\* Mutant of Rejected: the chat id is not compared.
RejectedTextOnly(msg) == ~Truthy(msg.text)

\* if (msg.chat.id.toString() !== validatedChatId || !msg.text) return
Rejected(msg) == ChatIdToString(msg.chat) # validatedChatId \/ ~Truthy(msg.text)

\* The questionId handleMessage looks up: parsed from the quoted text, else
\* lastQuestionId.
FromReply(msg) ==
    IF Truthy(msg.reply) THEN MatchQuestionId(msg.reply) ELSE Null
\* Mutant of Candidate: with no lastQuestionId, any pending question is taken.
CandidateAnyPending(msg, last) ==
    IF Truthy(FromReply(msg)) THEN FromReply(msg)
    ELSE IF Truthy(last) \/ DOMAIN pendingQuestions = {} THEN last
    ELSE CHOOSE q \in DOMAIN pendingQuestions : TRUE

\* Mutant of Candidate: a parsed identity that is not outstanding is given up
\* for lastQuestionId.
CandidateFallsBack(msg, last) ==
    IF Truthy(FromReply(msg)) /\ FromReply(msg) \in DOMAIN pendingQuestions
    THEN FromReply(msg) ELSE last

Candidate(msg, last) == IF Truthy(FromReply(msg)) THEN FromReply(msg) ELSE last

\* if (questionId && pendingQuestions.has(questionId))
Matches(questionId, pq) == Truthy(questionId) /\ questionId \in DOMAIN pq

\* resolver(msg.text): the promise of call id settles the first time only.
Resolver(cs, id, text) ==
    [cs EXCEPT ![id].invoked = @ + 1,
               ![id].pc = IF @ = "waiting" THEN "resolved" ELSE @,
               ![id].answer = IF cs[id].pc = "waiting" THEN text ELSE @]

\* Mutant of Delete: the entry is left in the map.
DeleteNothing(pq, questionId) == pq

\* pendingQuestions.delete(questionId)
Delete(pq, questionId) == [q \in DOMAIN pq \ {questionId} |-> pq[q]]

\* lastQuestionId after a question was resolved.
LastAfterResolve(last, questionId) == Null

\* The record of a handleMessage run (see NoEvent).
Observed(msg) ==
    LET questionId == Candidate(msg, lastQuestionId)
        matched    == ~Rejected(msg) /\ Matches(questionId, pendingQuestions)
    IN  [outcome    |-> IF Rejected(msg) THEN "rejected"
                        ELSE IF matched THEN "resolved" ELSE "no match",
         foreign    |-> msg.chat # ConfiguredChat,
         hasText    |-> msg.text # Undefined,
         reply      |-> IF Rejected(msg) THEN Undefined ELSE msg.reply,
         questionId |-> IF Rejected(msg) THEN Null ELSE questionId,
         call       |-> IF matched THEN pendingQuestions[questionId] ELSE 0]

\* bot.on('message', handleMessage)
HandleMessage(msg) ==
    /\ ~crashed
    /\ IF Rejected(msg) THEN UNCHANGED <<calls, pendingQuestions, lastQuestionId>>
       ELSE LET questionId == Candidate(msg, lastQuestionId)
            IN  IF Matches(questionId, pendingQuestions)
                THEN /\ calls' = Resolver(calls, pendingQuestions[questionId], msg.text)
                     /\ pendingQuestions' = Delete(pendingQuestions, questionId)
                     /\ lastQuestionId' = LastAfterResolve(lastQuestionId, questionId)
                ELSE UNCHANGED <<calls, pendingQuestions, lastQuestionId>>
    /\ UNCHANGED <<buffer, nextId, crashed, unaddressed, stdin>>

\* Mutant of Settled: askUser goes on without awaiting its promise.
SettledOrSuspended(call) == call.pc \in {"resolved", "waiting"}

\* `await new Promise(...)` lets askUser go on once `resolve` has been called.
Settled(call) == call.pc = "resolved"

\* askUser returns the answer and handleRequest sends the result.
AskReturned(id) ==
    /\ ~crashed
    /\ id \in DOMAIN calls
    /\ Settled(calls[id])
    /\ ~HeldBack(id)
    /\ calls' = Finish(id, <<ResultResponse(id, TextContent(calls[id].answer))>>)
    /\ UNCHANGED <<buffer, nextId, pendingQuestions, lastQuestionId, crashed, unaddressed, stdin>>
    /\ event' = NoEvent

\* ---------------------------------------------------------- specification

Init ==
    /\ buffer = <<>>
    /\ nextId = 1
    /\ calls = <<>>
    /\ pendingQuestions = <<>>
    /\ lastQuestionId = Null
    /\ event = NoEvent
    /\ crashed = FALSE
    /\ unaddressed = 0
    /\ stdin = [text |-> <<>>, chunks |-> <<>>, frames |-> <<>>]

\* The dispatcher with every kind of request; what handleMessage sees is not
\* recorded.
Next ==
    \/ \E chunk \in Chunks(nextId, RequestBodies) :
           \E rnd \in RandomDraws(buffer \o chunk) :
               HandleInput(chunk, rnd) /\ UNCHANGED stdin
    \/ \E id \in 1..MaxReq : SendResolved(id)
    \/ \E id \in 1..MaxReq, message \in FailureMessages : SendRejected(id, message)
    \/ \E id \in 1..MaxReq : ZipResolved(id)
    \/ \E id \in 1..MaxReq, message \in FailureMessages : ZipRejected(id, message)
    \/ \E msg \in Messages : HandleMessage(msg) /\ event' = NoEvent
    \/ \E id \in 1..MaxReq : AskReturned(id)

Spec == Init /\ [][Next]_vars

\* The question/answer service alone: ask_user requests only, and every
\* handleMessage run recorded in `event`.
AskBodies == {b \in RequestBodies : b.name = <<"ask_user">>}

ChatNext ==
    \/ \E chunk \in Chunks(nextId, AskBodies) :
           \E rnd \in RandomDraws(buffer \o chunk) :
               HandleInput(chunk, rnd) /\ UNCHANGED stdin
    \/ \E id \in 1..MaxReq : SendResolved(id)
    \/ \E id \in 1..MaxReq, message \in FailureMessages : SendRejected(id, message)
    \/ \E msg \in Messages : HandleMessage(msg) /\ event' = Observed(msg)
    \/ \E id \in 1..MaxReq : AskReturned(id)

ChatSpec == Init /\ [][ChatNext]_vars

\* The dispatcher while no chat message arrives: every send and every zip
\* settles (resolves or rejects) in the end.
LiveNext ==
    \/ \E chunk \in Chunks(nextId, RequestBodies) :
           \E rnd \in RandomDraws(buffer \o chunk) :
               HandleInput(chunk, rnd) /\ UNCHANGED stdin
    \/ \E id \in 1..MaxReq : SendResolved(id)
    \/ \E id \in 1..MaxReq, message \in FailureMessages : SendRejected(id, message)
    \/ \E id \in 1..MaxReq : ZipResolved(id)
    \/ \E id \in 1..MaxReq, message \in FailureMessages : ZipRejected(id, message)

Fairness ==
    \A id \in 1..MaxReq :
        /\ WF_vars(SendResolved(id) \/ \E message \in FailureMessages : SendRejected(id, message))
        /\ WF_vars(ZipResolved(id) \/ \E message \in FailureMessages : ZipRejected(id, message))

LiveSpec == Init /\ [][LiveNext]_vars /\ Fairness

\* The dispatcher fed with frames of every kind: requests, empty lines, text
\* that is not JSON, and JSON values that are not objects, alone or followed
\* by a request in the same chunk.
FrameBodies ==
    {b \in RequestBodies :
        b.method \in {<<"initialize">>, <<"tools/list">>} \/ b.name = <<"notify_user">>}
FrameChunks(k, bodies) ==
    Chunks(k, bodies)
    \cup {<<v, NewLine>> : v \in {JsonNull, JsonNumber}}
    \cup {<<v, NewLine, JsonText(Request(k, b)), NewLine>> :
             v \in {JsonNull, JsonNumber}, b \in bodies}

FrameNext ==
    \/ \E chunk \in FrameChunks(nextId, FrameBodies) :
           \E rnd \in RandomDraws(buffer \o chunk) :
               HandleInput(chunk, rnd) /\ UNCHANGED stdin
    \/ \E id \in 1..MaxReq : SendResolved(id)
    \/ \E id \in 1..MaxReq, message \in FailureMessages : SendRejected(id, message)

FrameSpec == Init /\ [][FrameNext]_vars

\* askUser's tagging alone: one ask_user request, with any question text made
\* of "#", an identity character and newlines, and any random string.
TagChars == {"#", "a", "NL"}
TagQuestions == UNION {[1..n -> TagChars] : n \in 0..MaxQuestionLen}
TagBodies ==
    {[method |-> <<"tools/call">>, name |-> <<"ask_user">>, arguments |-> q] :
        q \in TagQuestions}

TagNext ==
    \E b \in TagBodies :
        LET chunk == <<JsonText(Request(nextId, b)), NewLine>>
        IN  \E rnd \in RandomDraws(chunk) :
                nextId = 1 /\ HandleInput(chunk, rnd) /\ UNCHANGED stdin

TagSpec == Init /\ [][TagNext]_vars

\* handleInput's framing alone: any text of characters and newlines, cut
\* into chunks in any way, what was read being recorded in `stdin`.
TextChars == {Junk, NewLine}
CharChunks(n) == UNION {[1..k -> TextChars] : k \in 1..n}
Fed(chunk) ==
    [text   |-> stdin.text \o chunk,
     chunks |-> Append(stdin.chunks, Len(chunk)),
     frames |-> stdin.frames \o Complete(chunk)]

FramingNext ==
    \E chunk \in CharChunks(MaxText - Len(stdin.text)) :
        \E rnd \in RandomDraws(buffer \o chunk) :
            HandleInput(chunk, rnd) /\ stdin' = Fed(chunk)

FramingSpec == Init /\ [][FramingNext]_vars

\* ------------------------------------------------------------------ claims

\* The questions outstanding in the mapping, the ask_user calls that reached
\* askUser's send, and the tagged text a call sent.
Outstanding == DOMAIN pendingQuestions
AskCalls ==
    {c \in DOMAIN calls : calls[c].request.name = <<"ask_user">>
                             /\ calls[c].request.arguments # Undefined}
TaggedTextOf(id) == calls[id].sent[1].text
Handled(e) == e.outcome \in {"no match", "resolved"}
Plain(e) == Handled(e) /\ e.reply = Undefined

C3_ForeignOrTextlessIgnored ==
    [][(event'.outcome # "none" /\ (event'.foreign \/ ~event'.hasText))
          => UNCHANGED <<calls, pendingQuestions, lastQuestionId>>]_vars

\* C3 witness: a message with text from another chat was handled while the
\* last question was outstanding.
C3_Witness ==
    /\ event.outcome = "rejected" /\ event.foreign /\ event.hasText
    /\ lastQuestionId \in Outstanding

\* C10: a message from the configured chat with no quoted text, or a quoted
\* text holding no identity, handled while lastQuestionId is null, resolves
\* nothing and leaves pendingQuestions unchanged.
C10_NoIdentityNoLast ==
    [][(Handled(event') /\ MatchStarts(event'.reply) = {} /\ lastQuestionId = Null)
          => /\ UNCHANGED <<calls, pendingQuestions>>
             /\ event'.outcome = "no match"]_vars

\* C10 witness: such a message was handled while a question was outstanding.
C10_Witness ==
    /\ event.outcome = "no match"
    /\ MatchStarts(event.reply) = {}
    /\ lastQuestionId = Null
    /\ Outstanding # {}

\* C2: with exactly two questions outstanding, A registered first and B later,
\* B is the last question; a message without quoted text resolves B and leaves
\* A outstanding; a message quoting A's tagged text resolves A and leaves B
\* outstanding; and a step that is not a handleMessage run (sending or
\* registering another question) removes no outstanding question.
C2_ReplyPrecedence ==
    [][/\ \A A, B \in Outstanding :
            (/\ Outstanding = {A, B} /\ A # B
             /\ calls[pendingQuestions[A]].registeredAt < calls[pendingQuestions[B]].registeredAt)
            => /\ lastQuestionId = B
               /\ Plain(event') =>
                     /\ event'.call = pendingQuestions[B]
                     /\ Outstanding' = {A}
               /\ (Handled(event') /\ event'.reply = TaggedTextOf(pendingQuestions[A])) =>
                     /\ event'.call = pendingQuestions[A]
                     /\ Outstanding' = {B}
       /\ event'.outcome = "none" => Outstanding \subseteq Outstanding'
      ]_vars

\* C4: an ask_user call sends exactly "#" identity newline question with
\* force_reply; a message from the configured chat with text that quotes this
\* tagged text while the call waits resolves that call; and the response of an
\* answered call carries the request's id and the answer as text content.
C4_AnswerIsMatchedReply ==
    /\ [](\A c \in AskCalls :
            /\ calls[c].sent =
                 <<[text |-> <<"#">> \o calls[c].questionId \o <<"NL">>
                              \o calls[c].request.arguments,
                    force_reply |-> TRUE]>>
            /\ (calls[c].pc = "done" /\ calls[c].invoked >= 1) =>
                 calls[c].out = <<[id |-> calls[c].request.id, error |-> FALSE, code |-> 0,
                                   text |-> <<"content">> \o calls[c].answer]>>)
    /\ [][\A c \in AskCalls :
            (calls[c].pc = "waiting" /\ Handled(event') /\ event'.reply = TaggedTextOf(c))
            => (event'.call = c /\ calls'[c].pc = "resolved")]_vars

\* Frame intake is open: stdin data is handled in every state (up to the
\* bound on the number of requests).
IntakeOpen ==
    nextId <= MaxReq =>
        ENABLED (\E chunk \in Chunks(nextId, RequestBodies) :
                    \E rnd \in RandomDraws(buffer \o chunk) :
                        HandleInput(chunk, rnd) /\ UNCHANGED stdin)

\* Request id has exactly one response, and it carries id.
Responded(id) ==
    /\ id \in DOMAIN calls
    /\ Len(calls[id].out) = 1
    /\ \A i \in DOMAIN calls[id].out : calls[id].out[i].id = id

\* C5: whatever ask_user calls are suspended, and with no chat message
\* arriving, frame intake stays open, an initialize or tools/list request has
\* its response as soon as it is read, and a notify_user request has its own
\* response once its send has settled.
C5_PendingAskDoesNotBlock ==
    /\ []IntakeOpen
    /\ [](\A id \in DOMAIN calls :
            calls[id].request.method \in {<<"initialize">>, <<"tools/list">>}
            => (Responded(id) /\ \A i \in DOMAIN calls[id].out : ~calls[id].out[i].error))
    /\ \A id \in 1..MaxReq :
          (id \in DOMAIN calls /\ calls[id].request.name = <<"notify_user">>)
          ~> Responded(id)

\* C5 witness: a notify_user request read after an ask_user request has its
\* result while the ask_user call is still waiting for an answer.
C5_Witness ==
    \E a, n \in DOMAIN calls :
        /\ a < n
        /\ a \in AskCalls /\ calls[a].pc = "waiting"
        /\ calls[n].request.name = <<"notify_user">>
        /\ Len(calls[n].out) = 1 /\ ~calls[n].out[1].error

\* C6: a registered ask_user call has no response before its continuation
\* is invoked, its only response is the success result with the answer, and
\* only a handleMessage run that matches it ends its waiting.
C6_NoTimeout ==
    /\ [](\A c \in AskCalls :
            (calls[c].registeredAt > 0 /\ calls[c].out # <<>>) =>
                /\ calls[c].invoked = 1
                /\ calls[c].answer \in MessageTexts \ {Undefined}
                /\ calls[c].out = <<[id |-> c, error |-> FALSE, code |-> 0,
                                     text |-> <<"content">> \o calls[c].answer]>>)
    /\ [][\A c \in DOMAIN calls :
            (calls[c].pc = "waiting" /\ calls'[c] # calls[c])
            => (event'.outcome = "resolved" /\ event'.call = c)]_vars

\* C6 witness: a registered question still waits without a response while a
\* question registered after it has been answered and responded to.
C6_Witness ==
    \E c, d \in AskCalls :
        /\ calls[c].pc = "waiting" /\ calls[c].out = <<>>
        /\ 0 < calls[c].registeredAt /\ calls[c].registeredAt < calls[d].registeredAt
        /\ calls[d].pc = "done" /\ calls[d].invoked = 1

\* An ask_user call that ended without its continuation ever invoked: its
\* send failed.
SendFailed(c) ==
    c \in AskCalls /\ calls[c].pc = "done" /\ calls[c].invoked = 0

\* C7: an ask_user call whose send failed was never registered and is in no
\* entry of pendingQuestions, sent once, and has exactly one response: the
\* error -32000 carrying the failure message.
C7_SendFailureAborts ==
    \A c \in DOMAIN calls :
        SendFailed(c) =>
            /\ calls[c].registeredAt = 0
            /\ \A q \in Outstanding : pendingQuestions[q] # c
            /\ Len(calls[c].sent) = 1
            /\ \E m \in FailureMessages :
                  calls[c].out = <<[id |-> c, error |-> TRUE, code |-> -32000,
                                    text |-> <<"Failed to get response: ">> \o m]>>

\* C7 witness: a send failed while another question is outstanding.
C7_Witness == Outstanding # {} /\ \E c \in DOMAIN calls : SendFailed(c)

\* C8: every parsed request has at most one response, exactly one once its
\* handler has completed, and the response carries the request's id.
C8_ExactlyOneResponse ==
    \A c \in DOMAIN calls :
        /\ calls[c].request.id = c
        /\ Len(calls[c].out) <= 1
        /\ calls[c].pc = "done" <=> Len(calls[c].out) = 1
        /\ \A i \in 1..Len(calls[c].out) : calls[c].out[i].id = c

\* C8 witness: one request completed with an error from the tools/call catch
\* and another, an answered ask_user, with a result.
C8_Witness ==
    \E c, d \in DOMAIN calls :
        /\ calls[c].pc = "done" /\ calls[c].out[1].error /\ calls[c].out[1].code = -32000
        /\ d \in AskCalls /\ calls[d].pc = "done" /\ ~calls[d].out[1].error

KnownTools == {<<"ask_user">>, <<"notify_user">>, <<"send_file">>, <<"zip_project">>}
KnownMethods == {<<"initialize">>, <<"tools/list">>, <<"tools/call">>}
UnknownTool(request) == request.method = <<"tools/call">> /\ request.name \notin KnownTools
UnknownMethod(request) == request.method \notin KnownMethods

\* C9: a tools/call of an unknown tool has the error -32000 naming the tool,
\* a request of an unknown method the error -32601; handling such a request
\* changes neither the registry nor any other call, and intake stays open.
C9_UnknownToolAndMethod ==
    /\ []IntakeOpen
    /\ [](\A c \in DOMAIN calls :
            /\ UnknownTool(calls[c].request) =>
                 calls[c].out = <<[id |-> c, error |-> TRUE, code |-> -32000,
                                   text |-> <<"Unknown tool: ">> \o calls[c].request.name]>>
            /\ UnknownMethod(calls[c].request) =>
                 calls[c].out = <<[id |-> c, error |-> TRUE, code |-> -32601,
                                   text |-> <<"Method not found: ">> \o calls[c].request.method]>>)
    /\ [][(/\ DOMAIN calls' # DOMAIN calls
           /\ \A c \in DOMAIN calls' \ DOMAIN calls :
                 UnknownTool(calls'[c].request) \/ UnknownMethod(calls'[c].request))
          => /\ UNCHANGED <<pendingQuestions, lastQuestionId>>
             /\ \A c \in DOMAIN calls : calls'[c] = calls[c]]_vars

\* C9 witness: after an unknown tool was refused, a later ask_user request
\* was registered, answered and responded to.
C9_Witness ==
    \E c, d \in DOMAIN calls :
        /\ c < d
        /\ UnknownTool(calls[c].request)
        /\ d \in AskCalls /\ calls[d].invoked = 1
        /\ calls[d].pc = "done" /\ ~calls[d].out[1].error

\* C11: no two ask_user calls that wait for an answer at the same time carry
\* the same questionId, and every waiting call is still the one stored under
\* its questionId (no later registration has overwritten its continuation).
C11_IdentitiesDistinct ==
    /\ \A c, d \in AskCalls :
          (c # d /\ calls[c].pc = "waiting" /\ calls[d].pc = "waiting")
          => calls[c].questionId # calls[d].questionId
    /\ \A c \in AskCalls :
          calls[c].pc = "waiting"
          => (calls[c].questionId \in Outstanding
              /\ pendingQuestions[calls[c].questionId] = c)

\* C12: a frame that is not the JSON text of a request object is dropped:
\* no response without a request id is ever written, the process is not
\* terminated, and the initialize and tools/list requests read have their
\* response.
C12_BadFramesDropped ==
    /\ ~crashed
    /\ unaddressed = 0
    /\ \A id \in DOMAIN calls :
          calls[id].request.method \in {<<"initialize">>, <<"tools/list">>} => Responded(id)

\* C13: whenever lastQuestionId holds an identity (it is neither null nor
\* the empty text), that identity is a key of pendingQuestions.
C13_LastIsPending == Truthy(lastQuestionId) => lastQuestionId \in Outstanding

\* C14: a handleMessage run that resolves the last question clears
\* lastQuestionId; one that resolves another question while the last question
\* is outstanding under a non-empty identity keeps lastQuestionId.
C14_ClearOnlyIfLast ==
    [][event'.outcome = "resolved"
          => /\ lastQuestionId = event'.questionId => lastQuestionId' = Null
             /\ (/\ lastQuestionId # event'.questionId
                 /\ Truthy(lastQuestionId)
                 /\ lastQuestionId \in Outstanding) => lastQuestionId' = lastQuestionId]_vars

\* C15: when exactly two ask_user calls were made, with different non-empty
\* identities, and both are registered and wait, lastQuestionId is the
\* identity of the one whose send completed last.
C15_LastIsMostRecentlySent ==
    \A c, d \in AskCalls :
        (/\ AskCalls = {c, d}
         /\ calls[c].pc = "waiting" /\ calls[d].pc = "waiting"
         /\ Truthy(calls[c].questionId) /\ Truthy(calls[d].questionId)
         /\ calls[c].questionId # calls[d].questionId
         /\ calls[c].registeredAt < calls[d].registeredAt)
        => lastQuestionId = calls[d].questionId

\* C16: when the send of a second ask_user call fails while the first call,
\* registered under a non-empty identity and not yet answered, is the only
\* other one, lastQuestionId is the first call's identity afterwards (so a
\* plain reply resolves it).
C16_FailedSendKeepsLast ==
    [][\A c, d \in AskCalls :
          (/\ AskCalls = {c, d} /\ c < d
           /\ calls[c].pc = "waiting" /\ Truthy(calls[c].questionId)
           /\ calls[d].pc = "sending" /\ calls'[d].pc = "done")
          => lastQuestionId' = calls[c].questionId]_vars

\* C17: a message from the configured chat whose quoted text holds an
\* identity that is not outstanding resolves nothing and changes neither
\* pendingQuestions nor lastQuestionId, whatever the last question is.
C17_ParsedIdentityOnly ==
    [][(/\ Handled(event')
        /\ MatchStarts(event'.reply) # {}
        /\ MatchQuestionId(event'.reply) \notin Outstanding)
          => /\ event'.outcome = "no match"
             /\ UNCHANGED <<calls, pendingQuestions, lastQuestionId>>]_vars

\* C17 witness: such a message was handled while another question was
\* outstanding and the last question.
C17_Witness ==
    /\ event.outcome = "no match"
    /\ MatchStarts(event.reply) # {}
    /\ Truthy(lastQuestionId) /\ lastQuestionId \in Outstanding
    /\ MatchQuestionId(event.reply) # lastQuestionId

\* C18: the identity of every ask_user call is non-empty and made of
\* [a-z0-9] only, and matching the tagged text the call sends against the
\* pattern of handleMessage gives back exactly that identity.
C18_TagRoundTrip ==
    \A c \in AskCalls :
        /\ calls[c].questionId # <<>>
        /\ \A i \in 1..Len(calls[c].questionId) : calls[c].questionId[i] \in IdChars
        /\ MatchStarts(TaggedTextOf(c)) # {}
        /\ MatchQuestionId(TaggedTextOf(c)) = calls[c].questionId

\* C19: once a later ask_user call has issued its send, a waiting earlier call
\* is resolved only by a message whose quoted text carries the earlier call's
\* identity, never by a message without quoted text or without an identity.
C19_OlderOnlyByQuote ==
    [][\A A, B \in AskCalls :
          (/\ A < B
           /\ calls[A].pc = "waiting"
           /\ event'.outcome = "resolved" /\ event'.call = A)
          => /\ MatchStarts(event'.reply) # {}
             /\ MatchQuestionId(event'.reply) = calls[A].questionId]_vars

\* The newline-terminated lines of a text, and the text after its last
\* newline, from the positions of the newlines.
NewLines(text) == {i \in 1..Len(text) : text[i] = NewLine}
NthNewLine(text, k) ==
    IF k = 0 THEN 0
    ELSE CHOOSE i \in NewLines(text) : Cardinality({j \in NewLines(text) : j <= i}) = k
TerminatedLines(text) ==
    [k \in 1..Cardinality(NewLines(text)) |->
        SubSeq(text, NthNewLine(text, k - 1) + 1, NthNewLine(text, k) - 1)]
Trailing(text) ==
    SubSeq(text, NthNewLine(text, Cardinality(NewLines(text))) + 1, Len(text))

\* C20: however the text read from stdin was cut into chunks, the lines
\* handed to JSON.parse are the newline-terminated lines of the whole text,
\* in order, and the buffer holds the text after the last newline.
C20_FramingChunkIndependent ==
    /\ stdin.frames = TerminatedLines(stdin.text)
    /\ buffer = Trailing(stdin.text)

\* C20 witness: a line delivered in two chunks, the second of which also
\* completes it, and a last chunk left unterminated in the buffer.
C20_Witness ==
    /\ stdin.text = <<Junk, Junk, NewLine, Junk>>
    /\ stdin.chunks = <<1, 2, 1>>
    /\ stdin.frames = <<<<Junk, Junk>>>>
    /\ buffer = <<Junk>>

\* C21: pendingQuestions holds exactly one entry per ask_user call that
\* waits for an answer, under that call's identity, and nothing else; an
\* entry appears only in the step in which a call suspends after its send
\* resolved, and disappears only in the handleMessage run that invokes its
\* continuation.
C21_MappingIsWaitingCalls ==
    /\ [](/\ \A q \in Outstanding :
               /\ pendingQuestions[q] \in AskCalls
               /\ calls[pendingQuestions[q]].pc = "waiting"
               /\ calls[pendingQuestions[q]].questionId = q
          /\ \A c \in AskCalls :
               calls[c].pc = "waiting"
               => \E q \in Outstanding : pendingQuestions[q] = c)
    /\ [][/\ \A q \in Outstanding' \ Outstanding :
               \E c \in AskCalls :
                   /\ calls[c].pc = "sending" /\ calls'[c].pc = "waiting"
                   /\ calls[c].questionId = q /\ pendingQuestions'[q] = c
          /\ \A q \in Outstanding \ Outstanding' :
               /\ event'.outcome = "resolved" /\ event'.questionId = q
               /\ event'.call = pendingQuestions[q]
               /\ calls'[pendingQuestions[q]].invoked = calls[pendingQuestions[q]].invoked + 1
         ]_vars
====
